---- MODULE Spec2Model ----
\* Semantic memory service of s60-knowledge-mcp (src/src/qdrant.ts) and its
\* tool handlers: two Qdrant collections, a lazily initialised embedder and
\* the five public operations, run by concurrent asynchronous callers.
\* Every await of the source is one step of a caller; the code between two
\* awaits runs atomically (single-threaded event loop).
EXTENDS Integers, Sequences, FiniteSets, TLC

VARIABLES
    collections,   \* the vector store: name -> [exists, indexes, points]
    embedder,      \* module variable `embedder`: 0 = null, k = k-th instance
    initStarted,   \* number of FlagEmbedding.init calls started so far
    proc,          \* per caller: position, arguments and locals of its call
    response,      \* the call that returned in the last step, if one did
    clock,         \* number of operations called so far (also the wall clock)
    faults,        \* transport / backend failures injected so far
    nextId,        \* ids handed out by crypto.randomUUID so far
    hist           \* history of acknowledged calls (for stating the claims)

vars == <<collections, embedder, initStarted, proc, response, clock, faults, nextId, hist>>

\* ------------------------------------------------------------------ bounds

MaxOps == 3        \* operations called in one run
MaxFaults == 1     \* injected failures in one run
Procs == {1, 2}    \* concurrent callers

\* --------------------------------------------------------------- constants

COLLECTION_GLOBAL == "memory-global"
COLLECTION_WORKSPACE == "memory-workspace"
CollectionOrder == <<COLLECTION_GLOBAL, COLLECTION_WORKSPACE>>
CollectionNames == {COLLECTION_GLOBAL, COLLECTION_WORKSPACE}
IndexFields == <<"scope", "agent", "type">>
DefaultLimit == 10
SearchThreshold == 5         \* score_threshold 0.5, in tenths
GlobalThreshold == 4         \* score_threshold 0.4, in tenths

\* An optional argument is <<>> (undefined) or <<v>>.
Undefined == <<>>
Some(v) == <<v>>
OrElse(opt, d) == IF opt = Undefined THEN d ELSE opt[1]

\* ---------------------------------------------------------------- inputs

StoreTexts == {"", "a", "b"}      \* text: String(args?.text ?? "")
UpdateTexts == {"a", "b"}
QueryTexts == {"a", "c"}
StoreScopes == {"global", "bw", "fess"}
SearchScopes == {Undefined, Some("global"), Some("bw")}
StoreTypes == {"note", "doc"}
SearchTypes == {Undefined, Some("note")}
SearchLimits == {Undefined, Some(1)}
CollectionArgs == {Undefined, Some("global")}

\* ------------------------------------------------------------- embedding

\* The embedding model yields unit vectors; they are modelled as integer
\* vectors of norm 65, so that cosine similarity is Dot(u, v) / NormSq:
\* a-a 1.0, a-b 0.875, c-a 0.4845, c-b 0.
EmbedTable(text) ==
    CASE text = "a" -> <<56, 33>>
      [] text = "b" -> <<33, 56>>
      [] text = "c" -> <<56, 0 - 33>>
      [] text = ""  -> <<0 - 56, 0 - 33>>
      [] OTHER      -> <<0, 65>>

Dot(u, v) == u[1] * v[1] + u[2] * v[2]
NormSq == Dot(EmbedTable("a"), EmbedTable("a"))

\* Cosine score of a stored vector against the query vector (scaled by NormSq).
Score(query, vector) == Dot(query, vector)

ClearsThresholdAlways(score, threshold) == TRUE

\* score >= threshold / 10
ClearsThreshold(score, threshold) == 10 * score >= threshold * NormSq

\* ------------------------------------------------------- the vector store

\* A point is [id, vector, payload]; a payload is a record whose fields are
\* scope, agent, type, tags, text, created_at and, once updated, updated_at.

HasPointAlways(points, id) == TRUE

HasPoint(points, id) == \E q \in points : q.id = id

\* upsert: insert the point, replacing a point of the same id.
UpsertPoints(points, pt) == {q \in points : q.id # pt.id} \cup {pt}

MergePayloadTakesScope(old, new) ==
    [k \in DOMAIN old \cup DOMAIN new |->
        IF k \in DOMAIN new THEN new[k] ELSE IF k = "scope" THEN "global" ELSE old[k]]

\* setPayload: the given fields are written, the other fields are kept.
MergePayload(old, new) ==
    [k \in DOMAIN old \cup DOMAIN new |->
        IF k \in DOMAIN new THEN new[k] ELSE old[k]]

SetPayloadPoints(points, id, new) ==
    {IF q.id = id THEN [q EXCEPT !.payload = MergePayload(q.payload, new)] ELSE q
        : q \in points}

UpdateVectorsPoints(points, id, vector) ==
    {IF q.id = id THEN [q EXCEPT !.vector = vector] ELSE q : q \in points}

DeletePointsKeepsAll(points, id) == points

DeletePoints(points, id) == {q \in points : q.id # id}

\* A filter is the `must` list of field-equality conditions.
MatchesFilter(payload, must) ==
    \A i \in 1..Len(must) :
        must[i].key \in DOMAIN payload /\ payload[must[i].key] = must[i].value

\* The points a search may return, as hits {id, score, payload}.
Eligible(points, vector, threshold, must) ==
    {[id |-> q.id, score |-> Score(vector, q.vector), payload |-> q.payload] :
        q \in {x \in points :
                 /\ MatchesFilter(x.payload, must)
                 /\ ClearsThreshold(Score(vector, x.vector), threshold)}}

RECURSIVE Orderings(_)
Orderings(S) ==
    IF S = {} THEN {<<>>}
    ELSE UNION {{<<h>> \o t : t \in Orderings(S \ {h})} : h \in S}

IsDescending(s) == \A i \in 1..(Len(s) - 1) : s[i].score >= s[i + 1].score

Take(s, n) == SubSeq(s, 1, IF n < Len(s) THEN n ELSE Len(s))

\* search: the best `limit` eligible points by descending score; the store
\* does not promise an order among equal scores.
SearchHits(points, vector, limit, threshold, must) ==
    {Take(s, limit) :
        s \in {o \in Orderings(Eligible(points, vector, threshold, must)) :
                 IsDescending(o)}}

\* ------------------------------------------------- Array.prototype.sort

\* Stable insertion of h into a list sorted by the comparator b.score - a.score:
\* h goes after every element it does not beat.
RECURSIVE InsertByScore(_, _)
InsertByScore(sorted, h) ==
    IF sorted = <<>> THEN <<h>>
    ELSE IF h.score > sorted[1].score THEN <<h>> \o sorted
    ELSE <<sorted[1]>> \o InsertByScore(Tail(sorted), h)

RECURSIVE SortByScore(_)
SortByScore(s) ==
    IF s = <<>> THEN <<>>
    ELSE InsertByScore(SortByScore(SubSeq(s, 1, Len(s) - 1)), s[Len(s)])

SortWithoutSlice(results, limit) == SortByScore(results)

SliceBeforeSort(results, limit) == SortByScore(Take(results, limit))

\* results.sort((a, b) => b.score - a.score).slice(0, limit)
SortAndSlice(results, limit) == Take(SortByScore(results), limit)

PushHitsInFront(results, hits) == hits \o results

\* results.push(...hits.map(...)): the hits go behind those already there.
PushHits(results, hits) == results \o hits

\* ------------------------------------------------------------------ state

Idle ==
    [pc |-> "idle", op |-> "none", text |-> "", scope |-> Undefined,
     type |-> Undefined, limit |-> Undefined, id |-> 0, collection |-> Undefined,
     names |-> {}, ci |-> 0, fi |-> 0, vector |-> <<>>, ts |-> 0,
     instance |-> 0, results |-> <<>>, ret |-> "none", retId |-> 0,
     \* history of the call, for stating the claims
     afterProvisioned |-> FALSE, ensured |-> FALSE, ackedAtCall |-> {},
     deletedAtCall |-> {}, globalSeen |-> {}, workspaceSeen |-> {},
     globalHits |-> <<>>, workspaceHits |-> <<>>, before |-> {}]

EmptyCollection == [exists |-> FALSE, indexes |-> {}, points |-> {}]

\* A fresh store (no collection yet) and a fresh process.
Init ==
    /\ collections = [c \in CollectionNames |-> EmptyCollection]
    /\ embedder = 0
    /\ initStarted = 0
    /\ proc = [p \in Procs |-> Idle]
    /\ response = Idle
    /\ clock = 0
    /\ faults = 0
    /\ nextId = 0
    /\ hist = [acked |-> {}, stored |-> <<>>, deleted |-> {}, touched |-> {},
               provisioned |-> FALSE, instances |-> {}, failedInits |-> {}]

\* A new call by caller p, and what the caller can know of the history. An
\* argument is drawn at the step that first uses it: until then no step
\* depends on it, so the behaviours are those of drawing it at the call.
NewCall(op) ==
    [Idle EXCEPT !.op = op, !.ackedAtCall = hist.acked,
                 !.deletedAtCall = hist.deleted,
                 !.afterProvisioned = hist.provisioned]

CanCall(p) == proc[p].pc = "idle" /\ clock < MaxOps

\* collection === "global" ? COLLECTION_GLOBAL : COLLECTION_WORKSPACE
TargetCollection(collection) ==
    IF collection = Some("global") THEN COLLECTION_GLOBAL ELSE COLLECTION_WORKSPACE

StoreCollectionAlwaysWorkspace(scope) == COLLECTION_WORKSPACE

\* scope === "global" ? COLLECTION_GLOBAL : COLLECTION_WORKSPACE
StoreCollection(scope) ==
    IF scope = "global" THEN COLLECTION_GLOBAL ELSE COLLECTION_WORKSPACE

\* Caller p goes on to its next await.
Continues(p, r) ==
    /\ proc' = [proc EXCEPT ![p] = r]
    /\ response' = Idle

\* The call of caller p ends with its value or its error: the tool handler's
\* try/catch turns it into the tool response, and p is free for a next request.
Returns(p, r, ret) ==
    /\ proc' = [proc EXCEPT ![p] = Idle]
    /\ response' = [r EXCEPT !.pc = "done", !.ret = ret]

\* ------------------------------------------------------ ensureCollections

NextMissingUnchecked(names, from) ==
    IF from <= Len(CollectionOrder) THEN from ELSE 0

\* Index in CollectionOrder of the first collection from `from` on that the
\* listing did not name; 0 when there is none.
NextMissing(names, from) ==
    LET missing == {i \in from..Len(CollectionOrder) : CollectionOrder[i] \notin names}
    IN  IF missing = {} THEN 0 ELSE CHOOSE i \in missing : \A j \in missing : i <= j

\* ensureCollections has returned: the caller goes on to embed(), whose
\* getEmbedder() starts FlagEmbedding.init when `embedder` is still null.
AfterEnsure(r) ==
    LET s == [r EXCEPT !.names = {}, !.ci = 0, !.fi = 0, !.ensured = TRUE]
    IN  IF embedder = 0
        THEN [s EXCEPT !.pc = "init", !.instance = initStarted + 1]
        ELSE [s EXCEPT !.pc = "embed", !.instance = embedder]

\* The loop of ensureCollections from collection index `from` on.
ContinueEnsure(r, from) ==
    LET i == NextMissing(r.names, from)
    IN  IF i = 0 THEN AfterEnsure(r)
        ELSE [r EXCEPT !.pc = "createCollection", !.ci = i]

EnsureReturns(r) == r.pc \in {"init", "embed"}

Provisioning(p, r) ==
    /\ Continues(p, r)
    /\ initStarted' = IF r.pc = "init" THEN initStarted + 1 ELSE initStarted
    /\ hist' = IF EnsureReturns(r)
               THEN [hist EXCEPT !.provisioned = TRUE,
                                 !.instances = IF r.pc = "embed"
                                               THEN @ \cup {r.instance} ELSE @]
               ELSE hist

\* const { collections } = await client.getCollections()
GetCollections(p) ==
    /\ proc[p].pc = "getCollections"
    /\ LET names == {c \in CollectionNames : collections[c].exists}
       IN  Provisioning(p, ContinueEnsure([proc[p] EXCEPT !.names = names], 1))
    /\ UNCHANGED <<collections, embedder, clock, faults, nextId>>

\* await client.createCollection(name, ...): the store refuses a name it has.
CreateCollection(p) ==
    /\ proc[p].pc = "createCollection"
    /\ LET name == CollectionOrder[proc[p].ci]
           r == proc[p]
       IN  IF collections[name].exists
           THEN /\ Returns(p, r, "AlreadyExists")
                /\ UNCHANGED collections
           ELSE /\ collections' = [collections EXCEPT ![name].exists = TRUE]
                /\ Continues(p, [r EXCEPT !.pc = "createPayloadIndex", !.fi = 1])
    /\ UNCHANGED <<embedder, initStarted, clock, faults, nextId, hist>>

\* await client.createPayloadIndex(name, { field_name: field, ... })
CreatePayloadIndex(p) ==
    /\ proc[p].pc = "createPayloadIndex"
    /\ LET name == CollectionOrder[proc[p].ci]
           r == proc[p]
       IN  /\ collections' = [collections EXCEPT
                                ![name].indexes = @ \cup {IndexFields[r.fi]}]
           /\ IF r.fi < Len(IndexFields)
              THEN Provisioning(p, [r EXCEPT !.fi = @ + 1])
              ELSE Provisioning(p, ContinueEnsure(r, r.ci + 1))
    /\ UNCHANGED <<embedder, clock, faults, nextId>>

\* ------------------------------------------------------------- embedding

\* embedder = await FlagEmbedding.init(...): the instance this call built is
\* assigned to the module variable and returned.
InitDone(p) ==
    /\ proc[p].pc = "init"
    /\ embedder' = proc[p].instance
    /\ Continues(p, [proc[p] EXCEPT !.pc = "embed"])
    /\ hist' = [hist EXCEPT !.instances = @ \cup {proc[p].instance}]
    /\ UNCHANGED <<collections, initStarted, clock, faults, nextId>>

\* Where a caller goes once embed() has returned its vector.
FirstRequest(op) ==
    CASE op = "memoryStore" -> "upsert"
      [] op = "semanticSearch" -> "searchGlobal"
      [] op = "semanticSearchGlobal" -> "searchGlobalOnly"
      [] op = "memoryUpdate" -> "setPayload"

\* const vector = await embed(...): the embedding returns and the caller sends
\* its first point request.
Embed(p) ==
    /\ proc[p].pc = "embed"
    /\ Continues(p, [proc[p] EXCEPT !.pc = FirstRequest(proc[p].op), !.instance = 0,
                                    !.afterProvisioned = FALSE])
    /\ UNCHANGED <<collections, embedder, initStarted, clock, faults, nextId, hist>>

\* ----------------------------------------------------------- memoryStore

\* The service function runs up to its first await, where its request is out.
Starts(p, op, pc) ==
    /\ Continues(p, [NewCall(op) EXCEPT !.pc = pc])
    /\ clock' = clock + 1
    /\ UNCHANGED <<collections, embedder, initStarted, faults, nextId, hist>>

CallMemoryStore(p) ==
    /\ CanCall(p)
    /\ Starts(p, "memoryStore", "getCollections")

RandomUUIDReused == IF nextId = 0 THEN 1 ELSE nextId

\* const id = crypto.randomUUID(): an id never handed out before.
RandomUUID == nextId + 1

StorePayloadStampsUpdate(r) ==
    [scope |-> r.scope[1], agent |-> "main", type |-> r.type[1], tags |-> <<>>,
     text |-> r.text, created_at |-> r.ts, updated_at |-> r.ts]

\* The payload of a new record: created_at is set, updated_at is absent.
StorePayload(r) ==
    [scope |-> r.scope[1], agent |-> "main", type |-> r.type[1], tags |-> <<>>,
     text |-> r.text, created_at |-> r.ts]

\* await client.upsert(collection, { wait: true, points: [{ id, vector, payload }] })
Upsert(p) ==
    /\ proc[p].pc = "upsert"
    /\ \E text \in StoreTexts, scope \in StoreScopes, type \in StoreTypes :
         LET r == [proc[p] EXCEPT
                     !.text = text, !.scope = Some(scope), !.type = Some(type),
                     !.vector = EmbedTable(text), !.id = RandomUUID, !.ts = clock]
             c == StoreCollection(scope)
             pt == [id |-> r.id, vector |-> r.vector, payload |-> StorePayload(r)]
         IN  /\ nextId' = nextId + 1
             /\ IF collections[c].exists
                THEN /\ collections' = [collections EXCEPT
                                          ![c].points = UpsertPoints(@, pt)]
                     /\ Returns(p, [r EXCEPT !.retId = r.id], "ok")
                     /\ hist' = [hist EXCEPT
                           !.acked = @ \cup {r.id},
                           !.stored = Append(@, [text |-> text, scope |-> scope,
                                                 type |-> type])]
                ELSE /\ Returns(p, r, "NotFound")
                     /\ hist' = [hist EXCEPT !.stored =
                           Append(@, [text |-> text, scope |-> scope, type |-> type])]
                     /\ UNCHANGED collections
    /\ UNCHANGED <<embedder, initStarted, clock, faults>>

\* ------------------------------------------------------------- searches

CallSemanticSearch(p) ==
    /\ CanCall(p)
    /\ Starts(p, "semanticSearch", "getCollections")

CallSemanticSearchGlobal(p) ==
    /\ CanCall(p)
    /\ Starts(p, "semanticSearchGlobal", "getCollections")

\* A JavaScript string option is truthy when given and not empty.
Truthy(opt) == opt # Undefined /\ opt[1] # ""

\* params.scope && params.scope !== "global"
SearchesWorkspace(scope) == Truthy(scope) /\ scope[1] # "global"

WorkspaceFilterTypeOnly(scope, type) ==
    IF Truthy(type) THEN <<[key |-> "type", value |-> type[1]]>> ELSE <<>>

WorkspaceFilterScopeOnly(scope, type) == <<[key |-> "scope", value |-> scope[1]]>>

\* The filter of the workspace search: scope, and type when one is given.
WorkspaceFilter(scope, type) ==
    <<[key |-> "scope", value |-> scope[1]]>>
        \o (IF Truthy(type) THEN <<[key |-> "type", value |-> type[1]]>> ELSE <<>>)

\* const globalHits = await client.search(COLLECTION_GLOBAL, ...), pushed to
\* results; without a workspace scope the call sorts, slices and returns.
SearchGlobal(p) ==
    /\ proc[p].pc = "searchGlobal"
    /\ \E query \in QueryTexts, scope \in SearchScopes, limitArg \in SearchLimits :
         LET r == [proc[p] EXCEPT !.text = query, !.vector = EmbedTable(query),
                                  !.scope = scope, !.limit = limitArg]
             limit == OrElse(limitArg, DefaultLimit)
             g == collections[COLLECTION_GLOBAL]
         IN  IF g.exists
             THEN \E hits \in SearchHits(g.points, r.vector, limit, SearchThreshold, <<>>) :
                    LET s == [r EXCEPT !.results = PushHits(<<>>, hits),
                                       !.globalSeen = g.points, !.globalHits = hits]
                    IN  IF SearchesWorkspace(scope)
                        THEN Continues(p, [s EXCEPT !.pc = "searchWorkspace"])
                        ELSE Returns(p, [s EXCEPT !.results =
                                            SortAndSlice(s.results, limit)], "ok")
             ELSE Returns(p, r, "NotFound")
    /\ UNCHANGED <<collections, embedder, initStarted, clock, faults, nextId, hist>>

\* const workspaceHits = await client.search(COLLECTION_WORKSPACE, ...), pushed
\* to results; then results.sort(...).slice(0, limit).
SearchWorkspace(p) ==
    /\ proc[p].pc = "searchWorkspace"
    /\ \E type \in SearchTypes :
         LET r == [proc[p] EXCEPT !.type = type]
             limit == OrElse(r.limit, DefaultLimit)
             w == collections[COLLECTION_WORKSPACE]
         IN  IF w.exists
             THEN \E hits \in SearchHits(w.points, r.vector, limit, SearchThreshold,
                                        WorkspaceFilter(r.scope, type)) :
                    Returns(p, [r EXCEPT
                                  !.results = SortAndSlice(PushHits(r.results, hits),
                                                           limit),
                                  !.workspaceSeen = w.points,
                                  !.workspaceHits = hits], "ok")
             ELSE Returns(p, [r EXCEPT !.results = <<>>, !.globalSeen = {},
                                       !.globalHits = <<>>], "NotFound")
    /\ UNCHANGED <<collections, embedder, initStarted, clock, faults, nextId, hist>>

GlobalOnlyHitsStricter(points, vector, limit) ==
    SearchHits(points, vector, limit, SearchThreshold + 4, <<>>)

\* client.search(COLLECTION_GLOBAL, { vector, limit, score_threshold: 0.4 })
GlobalOnlyHits(points, vector, limit) ==
    SearchHits(points, vector, limit, GlobalThreshold, <<>>)

\* semanticSearchGlobal: one search of the Global Collection, returned as is.
SearchGlobalOnly(p) ==
    /\ proc[p].pc = "searchGlobalOnly"
    /\ \E query \in QueryTexts, limitArg \in SearchLimits :
         LET r == [proc[p] EXCEPT !.text = query, !.vector = EmbedTable(query),
                                  !.limit = limitArg]
             limit == OrElse(limitArg, DefaultLimit)
             g == collections[COLLECTION_GLOBAL]
         IN  IF g.exists
             THEN \E hits \in GlobalOnlyHits(g.points, r.vector, limit) :
                    Returns(p, [r EXCEPT !.results = hits, !.globalSeen = g.points], "ok")
             ELSE Returns(p, r, "NotFound")
    /\ UNCHANGED <<collections, embedder, initStarted, clock, faults, nextId, hist>>

\* ---------------------------------------------------------- memoryUpdate

\* The caller addresses a record by an id that a store has returned to it.
CallMemoryUpdate(p) ==
    /\ CanCall(p)
    /\ hist.acked # {}
    /\ Starts(p, "memoryUpdate", "getCollections")

\* await client.setPayload(collection, { payload: { text, updated_at }, points: [id] });
\* the store reports a point it does not hold.
SetPayload(p) ==
    /\ proc[p].pc = "setPayload"
    /\ \E id \in proc[p].ackedAtCall, text \in UpdateTexts, collection \in CollectionArgs :
         LET r == [proc[p] EXCEPT !.id = id, !.collection = collection, !.text = text,
                                  !.vector = EmbedTable(text), !.ts = clock]
             c == TargetCollection(collection)
         IN  IF collections[c].exists /\ HasPoint(collections[c].points, id)
             THEN /\ collections' = [collections EXCEPT ![c].points =
                        SetPayloadPoints(@, id, [text |-> r.text, updated_at |-> r.ts])]
                  /\ Continues(p, [r EXCEPT !.pc = "updateVectors",
                          !.before = {q \in collections[c].points : q.id = id}])
                  /\ hist' = [hist EXCEPT !.touched = @ \cup {id}]
             ELSE /\ Returns(p, r, "NotFound")
                  /\ UNCHANGED <<collections, hist>>
    /\ UNCHANGED <<embedder, initStarted, clock, faults, nextId>>

\* await client.updateVectors(collection, { points: [{ id, vector }] })
UpdateVectors(p) ==
    /\ proc[p].pc = "updateVectors"
    /\ LET r == proc[p]
           c == TargetCollection(r.collection)
       IN  IF collections[c].exists /\ HasPoint(collections[c].points, r.id)
           THEN /\ collections' = [collections EXCEPT ![c].points =
                      UpdateVectorsPoints(@, r.id, r.vector)]
                /\ Returns(p, r, "ok")
                /\ hist' = [hist EXCEPT !.touched = @ \cup {r.id}]
           ELSE /\ Returns(p, r, "NotFound")
                /\ UNCHANGED <<collections, hist>>
    /\ UNCHANGED <<embedder, initStarted, clock, faults, nextId>>

\* ---------------------------------------------------------- memoryDelete

\* memoryDelete sends its request at once: it does not provision.
CallMemoryDelete(p) ==
    /\ CanCall(p)
    /\ Starts(p, "memoryDelete", "delete")

\* An id that no store has handed out.
UnknownId == 0

\* id: String(args?.id ?? ""): an id a store has returned to the caller or,
\* when there is none yet, an id of the caller's own.
DeleteIds(acked) == IF acked = {} THEN {UnknownId} ELSE acked

\* await client.delete(collection, { wait: true, points: [id] }): deleting an
\* id the collection does not hold succeeds; a missing collection is an error.
Delete(p) ==
    /\ proc[p].pc = "delete"
    /\ \E id \in DeleteIds(proc[p].ackedAtCall), collection \in CollectionArgs :
         LET r == [proc[p] EXCEPT !.id = id, !.collection = collection]
             c == TargetCollection(collection)
         IN  IF collections[c].exists
             THEN /\ collections' = [collections EXCEPT ![c].points =
                        DeletePoints(@, id)]
                  /\ Returns(p, r, "ok")
                  /\ hist' = [hist EXCEPT
                        !.deleted = @ \cup {[id |-> id, collection |-> c]},
                        !.touched = IF HasPoint(collections[c].points, id)
                                    THEN @ \cup {id} ELSE @]
             ELSE /\ Returns(p, r, "NotFound")
                  /\ UNCHANGED <<collections, hist>>
    /\ UNCHANGED <<embedder, initStarted, clock, faults, nextId>>

\* ---------------------------------------------------------------- failures

StoreRequests ==
    {"getCollections", "createCollection", "createPayloadIndex", "upsert",
     "searchGlobal", "searchWorkspace", "searchGlobalOnly", "setPayload",
     "updateVectors", "delete"}

\* A request to the store fails (network or server): the await throws, nothing
\* is caught in the service, the call ends with the error.
StoreFails(p) ==
    /\ proc[p].pc \in StoreRequests
    /\ faults < MaxFaults
    /\ faults' = faults + 1
    /\ Returns(p, [proc[p] EXCEPT !.results = <<>>, !.globalSeen = {},
                                  !.globalHits = <<>>], "StoreError")
    /\ UNCHANGED <<collections, embedder, initStarted, clock, nextId, hist>>

InitFailsKeepsInstance(p) ==
    /\ proc[p].pc = "init"
    /\ faults < MaxFaults
    /\ faults' = faults + 1
    /\ embedder' = proc[p].instance
    /\ Returns(p, proc[p], "InitError")
    /\ hist' = [hist EXCEPT !.failedInits = @ \cup {proc[p].instance}]
    /\ UNCHANGED <<collections, initStarted, clock, nextId>>

\* FlagEmbedding.init rejects: the assignment to `embedder` never happens.
InitFails(p) ==
    /\ proc[p].pc = "init"
    /\ faults < MaxFaults
    /\ faults' = faults + 1
    /\ Returns(p, proc[p], "InitError")
    /\ hist' = [hist EXCEPT !.failedInits = @ \cup {proc[p].instance}]
    /\ UNCHANGED <<collections, embedder, initStarted, clock, nextId>>

EmbedFailsSilently(p) ==
    /\ proc[p].pc = "embed"
    /\ faults < MaxFaults
    /\ faults' = faults + 1
    /\ Continues(p, [proc[p] EXCEPT !.pc = FirstRequest(proc[p].op), !.instance = 0,
                                    !.afterProvisioned = FALSE])
    /\ UNCHANGED <<collections, embedder, initStarted, clock, nextId, hist>>

\* queryEmbed yields nothing: throw new Error("Embedding failed — no output")
EmbedFails(p) ==
    /\ proc[p].pc = "embed"
    /\ faults < MaxFaults
    /\ faults' = faults + 1
    /\ Returns(p, proc[p], "EmbeddingError")
    /\ UNCHANGED <<collections, embedder, initStarted, clock, nextId, hist>>

\* ------------------------------------------------------------ behaviours

Next ==
    \E p \in Procs :
        \/ CallMemoryStore(p)
        \/ CallSemanticSearch(p)
        \/ CallSemanticSearchGlobal(p)
        \/ CallMemoryUpdate(p)
        \/ CallMemoryDelete(p)
        \/ GetCollections(p)
        \/ CreateCollection(p)
        \/ CreatePayloadIndex(p)
        \/ InitDone(p)
        \/ Embed(p)
        \/ Upsert(p)
        \/ SearchGlobal(p)
        \/ SearchWorkspace(p)
        \/ SearchGlobalOnly(p)
        \/ SetPayload(p)
        \/ UpdateVectors(p)
        \/ Delete(p)
        \/ StoreFails(p)
        \/ InitFails(p)
        \/ EmbedFails(p)

Spec == Init /\ [][Next]_vars

\* ---------------------------------------------------------------- claims

\* What a returned call shows.
ReturnedOk(op) == response.op = op /\ response.ret = "ok"
SearchReturned == ReturnedOk("semanticSearch") \/ ReturnedOk("semanticSearchGlobal")
ResultIds == {response.results[i].id : i \in 1..Len(response.results)}
ResponseLimit == OrElse(response.limit, DefaultLimit)

\* The collection that holds the record a store has acknowledged under `id`.
HomeCollection(id) ==
    IF id \in DOMAIN hist.stored THEN StoreCollection(hist.stored[id].scope) ELSE "none"

\* The score the returned search gives the text a store was called with.
StoredScore(id) == Score(response.vector, EmbedTable(hist.stored[id].text))

\* The full hit lists behind the returned semanticSearch: what each collection
\* held when it was searched, past its threshold and filter, before any limit.
GlobalEligible(threshold) ==
    Eligible(response.globalSeen, response.vector, threshold, <<>>)
WorkspaceEligible ==
    IF SearchesWorkspace(response.scope)
    THEN Eligible(response.workspaceSeen, response.vector, SearchThreshold,
                  WorkspaceFilter(response.scope, response.type))
    ELSE {}

\* Fewer than `limit` of the other hits score at least `score`.
RanksWithin(id, score, hits, limit) ==
    Cardinality({h \in hits : h.id # id /\ h.score >= score}) < limit

\* C1 (as stated): once memoryDelete(id) has returned successfully, whatever
\* its collection argument, no search called later returns that id.
C1_DeletedNeverReturned ==
    SearchReturned =>
        \A d \in response.deletedAtCall : d.id \notin ResultIds

\* C1 (amended): once memoryDelete(id, collection) has returned successfully
\* for the collection that holds the record, no search called later returns
\* that id.
C1_DeletedFromHomeNeverReturned ==
    SearchReturned =>
        \A d \in response.deletedAtCall :
            d.collection = HomeCollection(d.id) => d.id \notin ResultIds

\* A search called after a delete from the home collection, whose query clears
\* the threshold for the deleted text and whose scope admits the record.
C1_Witness ==
    /\ ReturnedOk("semanticSearch")
    /\ \E d \in response.deletedAtCall :
          /\ d.collection = HomeCollection(d.id)
          /\ ClearsThreshold(StoredScore(d.id), SearchThreshold)
          /\ \/ hist.stored[d.id].scope = "global"
             \/ response.scope = Some(hist.stored[d.id].scope)

\* C2: a semanticSearch with a workspace scope A returns only records whose
\* stored scope is A or "global".
C2_ScopeIsolation ==
    (ReturnedOk("semanticSearch") /\ SearchesWorkspace(response.scope)) =>
        \A i \in 1..Len(response.results) :
            response.results[i].payload.scope \in {response.scope[1], "global"}

\* A scoped search that returned a record of its scope while the Workspace
\* Collection held a record of another scope that clears the threshold.
C2_Witness ==
    /\ ReturnedOk("semanticSearch")
    /\ SearchesWorkspace(response.scope)
    /\ \E i \in 1..Len(response.results) :
          response.results[i].payload.scope = response.scope[1]
    /\ \E q \in response.workspaceSeen :
          /\ q.payload.scope \notin {response.scope[1], "global"}
          /\ ClearsThreshold(Score(response.vector, q.vector), SearchThreshold)

\* C3: semanticSearch returns at most `limit` entries, in non-increasing
\* order of score.
C3_LimitAndOrder ==
    ReturnedOk("semanticSearch") =>
        /\ Len(response.results) <= ResponseLimit
        /\ IsDescending(response.results)

\* Both collections had a hit for a search of limit 1, the workspace hit
\* scoring higher than the global one.
C3_Witness ==
    /\ ReturnedOk("semanticSearch")
    /\ response.limit = Some(1)
    /\ Len(response.results) = 1
    /\ \E g \in GlobalEligible(SearchThreshold), w \in WorkspaceEligible :
          w.score > g.score

LiveGlobal(id) ==
    /\ id \in response.ackedAtCall
    /\ hist.stored[id].scope = "global"
    /\ [id |-> id, collection |-> COLLECTION_GLOBAL] \notin hist.deleted

\* C5: a live global record is seen by the global search of semanticSearch,
\* whatever the scope argument, and by semanticSearchGlobal; it is returned
\* when its score clears the threshold of the call and fewer than `limit` of
\* the other hits score as high.
C5_GlobalAlwaysSearched ==
    /\ ReturnedOk("semanticSearch") =>
          \A id \in {i \in response.ackedAtCall : LiveGlobal(i)} :
              \E q \in response.globalSeen :
                  /\ q.id = id
                  /\ ( /\ ClearsThreshold(Score(response.vector, q.vector),
                                          SearchThreshold)
                       /\ RanksWithin(id, Score(response.vector, q.vector),
                             GlobalEligible(SearchThreshold) \cup WorkspaceEligible,
                             ResponseLimit) )
                     => id \in ResultIds
    /\ ReturnedOk("semanticSearchGlobal") =>
          \A id \in {i \in response.ackedAtCall : LiveGlobal(i)} :
              \E q \in response.globalSeen :
                  /\ q.id = id
                  /\ ( /\ ClearsThreshold(Score(response.vector, q.vector),
                                          GlobalThreshold)
                       /\ RanksWithin(id, Score(response.vector, q.vector),
                                      GlobalEligible(GlobalThreshold), ResponseLimit) )
                     => id \in ResultIds

\* A semanticSearch with a workspace scope returned a live global record.
C5_Witness ==
    /\ ReturnedOk("semanticSearch")
    /\ SearchesWorkspace(response.scope)
    /\ \E id \in ResultIds : LiveGlobal(id)

AllPoints == UNION {collections[c].points : c \in CollectionNames}

\* C6: every record of the Global Collection has scope "global", every record
\* of the Workspace Collection another scope, and each record still has the
\* scope it was stored with, in the collection that scope routes to.
C6_Partition ==
    \A c \in CollectionNames : \A q \in collections[c].points :
        /\ "scope" \in DOMAIN q.payload
        /\ q.payload.scope = hist.stored[q.id].scope
        /\ (q.payload.scope = "global") <=> (c = COLLECTION_GLOBAL)
        /\ \A d \in CollectionNames \ {c} : ~HasPoint(collections[d].points, q.id)

\* Both collections hold a record and an update has rewritten one of them.
C6_Witness ==
    /\ \A c \in CollectionNames : collections[c].points # {}
    /\ \E q \in AllPoints : "updated_at" \in DOMAIN q.payload

Quiescent == \A p \in Procs : proc[p].pc = "idle"

\* C7: whenever no operation is in progress (and no request has failed), the
\* vector of every stored record is the embedding of its current text.
C7_VectorMatchesText ==
    (Quiescent /\ faults = 0) =>
        \A q \in AllPoints : q.vector = EmbedTable(q.payload.text)

\* C8: FlagEmbedding.init is started at most once (no initialization having
\* failed).
C8_InitAtMostOnce == faults = 0 => initStarted <= 1

\* C9: no call fails because another caller created the collection first.
C9_NoAlreadyExistsError == response.ret # "AlreadyExists"

\* C10: once an ensureCollections call has returned, both collections exist,
\* and an ensureCollections call started after that sends no createCollection
\* or createPayloadIndex request and meets no already-exists error.
C10_ProvisioningIdempotent ==
    /\ hist.provisioned => \A c \in CollectionNames : collections[c].exists
    /\ \A p \in Procs :
          proc[p].afterProvisioned =>
              proc[p].pc \notin {"createCollection", "createPayloadIndex"}
    /\ response.afterProvisioned => response.ret # "AlreadyExists"

\* A second ensureCollections call, started after the first one returned, has
\* itself returned.
C10_Witness ==
    \E p \in Procs : proc[p].afterProvisioned /\ proc[p].pc \in {"init", "embed"}

\* The positions of a call whose ensureCollections has returned.
AfterEnsurePcs ==
    {"init", "embed", "upsert", "searchGlobal", "searchWorkspace",
     "searchGlobalOnly", "setPayload", "updateVectors"}

FullyIndexed(c) ==
    /\ collections[c].exists
    /\ \A i \in 1..Len(IndexFields) : IndexFields[i] \in collections[c].indexes

\* C11: once a call's ensureCollections has returned, both collections exist
\* and each has its payload indexes on scope, agent and type.
C11_EnsuredCollectionsIndexed ==
    \A p \in Procs :
        (proc[p].ensured /\ proc[p].pc \in AfterEnsurePcs) =>
            \A c \in CollectionNames : FullyIndexed(c)

\* The positions at which a call has a point request out.
PointRequestPcs ==
    {"upsert", "searchGlobal", "searchWorkspace", "searchGlobalOnly",
     "setPayload", "updateVectors", "delete"}

\* C12: a call of any public operation has a point request out only after
\* its own ensureCollections has returned.
C12_ProvisionsBeforePointRequest ==
    \A p \in Procs : proc[p].pc \in PointRequestPcs => proc[p].ensured

PointIds(c) == {q.id : q \in collections[c].points}

\* C13: an id enters a collection only by the upsert of a memoryStore call
\* that returns it; an id handed out earlier and absent from a collection
\* (never stored there, or deleted from it) stays absent, whatever memoryUpdate
\* and memoryDelete calls run.
C13_OnlyStoreAddsIds ==
    [][\A c \in CollectionNames :
          /\ \A id \in PointIds(c)' \ PointIds(c) :
                /\ response'.op = "memoryStore"
                /\ response'.ret = "ok"
                /\ response'.retId = id
          /\ \A id \in 1..nextId : id \notin PointIds(c) => id \notin PointIds(c)'
      ]_vars

\* A memoryUpdate met not-found because a memoryDelete called concurrently with
\* it removed the record first.
C13_Witness ==
    /\ response.op = "memoryUpdate"
    /\ response.ret = "NotFound"
    /\ LET d == [id |-> response.id,
                 collection |-> TargetCollection(response.collection)]
       IN  d \in hist.deleted \ response.deletedAtCall
    /\ response.id \in hist.touched
    /\ \A c \in CollectionNames : response.id \notin PointIds(c)

\* C14: when a memoryUpdate request (setPayload or updateVectors) finds no
\* point of its id in the collection its argument names, the call ends with a
\* not-found error and the request changes nothing in either collection.
C14_UpdateOfMissingFails ==
    [][\A p \in Procs :
          ( /\ proc[p].pc \in {"setPayload", "updateVectors"}
            /\ proc'[p] # proc[p]
            /\ faults' = faults )
          => LET r == IF proc'[p].pc = "idle" THEN response' ELSE proc'[p]
             IN  r.id \notin PointIds(TargetCollection(r.collection))
                 => /\ proc'[p].pc = "idle"
                    /\ response'.op = "memoryUpdate"
                    /\ response'.ret = "NotFound"
                    /\ collections' = collections
      ]_vars

\* A memoryUpdate without collection argument, of a record stored with scope
\* "global", has failed with not-found and the record is as it was stored.
C14_Witness ==
    /\ response.op = "memoryUpdate"
    /\ response.ret = "NotFound"
    /\ response.collection = Undefined
    /\ hist.stored[response.id].scope = "global"
    /\ response.id \notin hist.touched
    /\ \E q \in collections[COLLECTION_GLOBAL].points :
          /\ q.id = response.id
          /\ q.payload.text = hist.stored[q.id].text
          /\ q.payload.text # response.text
          /\ "updated_at" \notin DOMAIN q.payload

ProvisioningPcs == {"getCollections", "createCollection", "createPayloadIndex"}
EmbeddingPcs == {"init", "embed"}

\* A provisioning or embedding request of caller p fails in this step.
FailsBeforePointRequest(p) ==
    /\ proc[p].pc \in ProvisioningPcs \cup EmbeddingPcs
    /\ proc'[p] # proc[p]
    /\ \/ faults' # faults
       \/ /\ proc[p].pc = "createCollection"
          /\ collections[CollectionOrder[proc[p].ci]].exists

\* C15: when a provisioning or embedding request of a memoryStore or
\* memoryUpdate call fails, the call ends at once with an error (no retry),
\* it has sent no point request, and no point of either collection changes.
C15_FailureBeforeWriteAborts ==
    [][\A p \in Procs :
          (proc[p].op \in {"memoryStore", "memoryUpdate"} /\ FailsBeforePointRequest(p))
          => /\ proc'[p].pc = "idle"
             /\ response'.op = proc[p].op
             /\ response'.ret \in {"StoreError", "AlreadyExists", "InitError",
                                   "EmbeddingError"}
             /\ response'.id = 0 /\ response'.retId = 0
             /\ nextId' = nextId
             /\ \A c \in CollectionNames :
                   collections'[c].points = collections[c].points
      ]_vars

\* A memoryUpdate of a stored record has ended with the embedding error and
\* the record is as it was stored.
C15_Witness ==
    /\ response.op = "memoryUpdate"
    /\ response.ret = "EmbeddingError"
    /\ AllPoints # {}
    /\ \A q \in AllPoints :
          /\ q.payload.text = hist.stored[q.id].text
          /\ "updated_at" \notin DOMAIN q.payload

\* C16: no memoryStore call with an empty or missing text succeeds, and no
\* record with an empty text is in either collection.
C16_EmptyTextRejected ==
    /\ ~(ReturnedOk("memoryStore") /\ response.text = "")
    /\ \A q \in AllPoints : q.payload.text # ""

\* Caller p has a memoryUpdate request for point `id` of collection c applied
\* in this step.
UpdateStepOn(p, c, id) ==
    /\ proc[p].op = "memoryUpdate"
    /\ proc[p].pc \in {"setPayload", "updateVectors"}
    /\ proc'[p] # proc[p]
    /\ LET r == IF proc'[p].pc = "idle" THEN response' ELSE proc'[p]
       IN  r.id = id /\ TargetCollection(r.collection) = c

\* C17: a record enters with created_at and without updated_at; a record
\* changes only by a memoryUpdate request addressed to it, which leaves its
\* scope, agent, type, tags and created_at as they were and adds no field but
\* updated_at; a record has updated_at exactly when an update was applied to
\* it.
C17_TimestampsAndUpdateFrame ==
    [][\A c \in CollectionNames :
          /\ \A q \in collections'[c].points :
                /\ "created_at" \in DOMAIN q.payload
                /\ ("updated_at" \in DOMAIN q.payload) <=> (q.id \in hist'.touched)
                /\ q.id \notin PointIds(c) => "updated_at" \notin DOMAIN q.payload
          /\ \A q \in collections[c].points : \A n \in collections'[c].points :
                (n.id = q.id /\ n # q) =>
                    /\ \E p \in Procs : UpdateStepOn(p, c, q.id)
                    /\ DOMAIN n.payload \subseteq DOMAIN q.payload \cup {"updated_at"}
                    /\ \A k \in DOMAIN q.payload \ {"text", "updated_at"} :
                          k \in DOMAIN n.payload /\ n.payload[k] = q.payload[k]
          /\ (\E p \in Procs : \E id \in 1..nextId : UpdateStepOn(p, c, id))
                => PointIds(c)' = PointIds(c)
      ]_vars

\* A memoryUpdate has succeeded on one of two stored records: it carries the
\* new text and an updated_at later than its created_at, the other record has
\* no updated_at.
C17_Witness ==
    /\ ReturnedOk("memoryUpdate")
    /\ \E q \in AllPoints :
          /\ q.id = response.id
          /\ q.payload.text = response.text
          /\ q.payload.text # hist.stored[q.id].text
          /\ q.payload.updated_at > q.payload.created_at
    /\ \E q \in AllPoints :
          /\ q.id # response.id
          /\ "updated_at" \notin DOMAIN q.payload

\* C18: a memoryDelete request that is not lost completes without error; it
\* removes from the collection its argument names the point of its id, if
\* there is one, and changes nothing else in either collection.
C18_DeleteFrame ==
    [][\A p \in Procs :
          (proc[p].pc = "delete" /\ proc'[p] # proc[p] /\ faults' = faults)
          => LET c == TargetCollection(response'.collection)
             IN  /\ response'.op = "memoryDelete"
                 /\ response'.ret = "ok"
                 /\ collections'[c].points =
                        {q \in collections[c].points : q.id # response'.id}
                 /\ collections'[c].exists = collections[c].exists
                 /\ collections'[c].indexes = collections[c].indexes
                 /\ \A d \in CollectionNames \ {c} : collections'[d] = collections[d]
      ]_vars

\* The hits of the returned semanticSearch in discovery order: those of the
\* Global Collection, then those of the Workspace Collection, each as the
\* store returned them.
Discovered == response.globalHits \o response.workspaceHits

\* The place of the i-th discovered hit in a stable descending sort: behind
\* every hit of higher score and every earlier hit of equal score.
StableRank(d, i) ==
    1 + Cardinality({j \in 1..Len(d) :
            \/ d[j].score > d[i].score
            \/ d[j].score = d[i].score /\ j < i})

\* The returned list is the stable descending sort of the discovered hits,
\* cut to limit.
StablyMerged ==
    /\ Len(response.results) =
          (IF Len(Discovered) < ResponseLimit THEN Len(Discovered) ELSE ResponseLimit)
    /\ \A i \in 1..Len(Discovered) :
          StableRank(Discovered, i) <= ResponseLimit
              => response.results[StableRank(Discovered, i)] = Discovered[i]

\* Every list a semanticSearch call with the inputs of the returned call can
\* return on the store contents the returned call has seen.
PossibleResults ==
    {SortAndSlice(PushHits(PushHits(<<>>, g), w), ResponseLimit) :
        g \in SearchHits(response.globalSeen, response.vector, ResponseLimit,
                         SearchThreshold, <<>>),
        w \in (IF SearchesWorkspace(response.scope)
               THEN SearchHits(response.workspaceSeen, response.vector, ResponseLimit,
                               SearchThreshold,
                               WorkspaceFilter(response.scope, response.type))
               ELSE {<<>>})}

\* No two hits of one collection's search have the same score.
DistinctScoresWithin(hits) ==
    \A g, h \in hits : g.score = h.score => g = h

\* C19 (as stated): the returned list is the stable descending sort of the
\* discovered hits, and every call with the same inputs on the same store
\* contents returns the same list.
C19_DeterministicMerge ==
    ReturnedOk("semanticSearch") =>
        /\ StablyMerged
        /\ \A other \in PossibleResults : other = response.results

\* C19 (amended): the returned list is the stable descending sort of the
\* discovered hits; every call with the same inputs on the same store
\* contents returns a list with the same scores in the same places, and the
\* same list when no two hits of one collection have equal scores.
C19_MergeDeterminedByHitLists ==
    ReturnedOk("semanticSearch") =>
        /\ StablyMerged
        /\ \A other \in PossibleResults :
              /\ Len(other) = Len(response.results)
              /\ \A i \in 1..Len(other) : other[i].score = response.results[i].score
              /\ ( /\ DistinctScoresWithin(GlobalEligible(SearchThreshold))
                    /\ DistinctScoresWithin(WorkspaceEligible) )
                 => other = response.results

\* A global hit and a workspace hit of equal score were both returned, the
\* global one first.
C19_Witness ==
    /\ ReturnedOk("semanticSearch")
    /\ \E i, j \in 1..Len(response.results) :
          /\ i < j
          /\ response.results[i].score = response.results[j].score
          /\ response.results[i].payload.scope = "global"
          /\ response.results[j].payload.scope # "global"

\* C20: no id is in both collections, and the list semanticSearch returns
\* names no id twice.
C20_NoDuplicateIds ==
    /\ PointIds(COLLECTION_GLOBAL) \cap PointIds(COLLECTION_WORKSPACE) = {}
    /\ ReturnedOk("semanticSearch") =>
          \A i, j \in 1..Len(response.results) :
              response.results[i].id = response.results[j].id => i = j

\* A semanticSearch returned hits of both collections.
C20_Witness ==
    /\ ReturnedOk("semanticSearch")
    /\ response.globalHits # <<>>
    /\ response.workspaceHits # <<>>
    /\ Len(response.results) = Len(response.globalHits) + Len(response.workspaceHits)

\* C21: every entry of the list semanticSearchGlobal returns is a record of
\* the Global Collection, stored with scope "global" and still carrying it,
\* with its cosine score, which is at least 0.4; the list has at most `limit`
\* entries, in non-increasing order of score.
C21_GlobalSearchOnlyGlobal ==
    ReturnedOk("semanticSearchGlobal") =>
        /\ Len(response.results) <= ResponseLimit
        /\ IsDescending(response.results)
        /\ \A i \in 1..Len(response.results) :
              LET h == response.results[i]
              IN  /\ h.payload.scope = "global"
                  /\ hist.stored[h.id].scope = "global"
                  /\ 10 * h.score >= GlobalThreshold * NormSq
                  /\ \E q \in response.globalSeen :
                        q.id = h.id /\ h.score = Dot(response.vector, q.vector)

\* semanticSearchGlobal returned a global record that scores between 0.4 and
\* 0.5 while the Workspace Collection held a record of the same score.
C21_Witness ==
    /\ ReturnedOk("semanticSearchGlobal")
    /\ \E i \in 1..Len(response.results) :
          /\ 10 * response.results[i].score < SearchThreshold * NormSq
          /\ \E q \in collections[COLLECTION_WORKSPACE].points :
                Dot(response.vector, q.vector) = response.results[i].score

\* The entries of the returned list that the Workspace Collection's search
\* contributed.
FromWorkspace ==
    {i \in 1..Len(response.results) :
        \E j \in 1..Len(response.workspaceHits) :
            response.workspaceHits[j] = response.results[i]}

\* C22: when semanticSearch is called with a non-global scope and a type,
\* every returned record of the Workspace Collection has that scope and that
\* type.
C22_TypeAndScopeFilter ==
    ( /\ ReturnedOk("semanticSearch")
      /\ SearchesWorkspace(response.scope)
      /\ Truthy(response.type) )
    => \A i \in FromWorkspace :
          /\ response.results[i].payload.scope = response.scope[1]
          /\ response.results[i].payload.type = response.type[1]
          /\ hist.stored[response.results[i].id].type = response.type[1]

\* A search with scope and type returned a workspace record of that type
\* while the Workspace Collection held a record of the same scope and score
\* but of another type.
C22_Witness ==
    /\ ReturnedOk("semanticSearch")
    /\ SearchesWorkspace(response.scope)
    /\ Truthy(response.type)
    /\ FromWorkspace # {}
    /\ \E i \in FromWorkspace : \E q \in response.workspaceSeen :
          /\ q.payload.scope = response.scope[1]
          /\ q.payload.type # response.type[1]
          /\ Dot(response.vector, q.vector) = response.results[i].score

\* C23: a FlagEmbedding.init that rejects ends the call that awaited it with
\* the error and assigns nothing to `embedder`; `embedder` never holds a
\* failed instance, no call is handed one, and a call that finds `embedder`
\* null starts an initialization of its own.
C23_InitFailureLeavesNoInstance ==
    [][/\ \A p \in Procs :
             (proc[p].pc = "init" /\ proc'[p] # proc[p] /\ faults' # faults)
             => /\ proc'[p].pc = "idle"
                /\ response'.op = proc[p].op
                /\ response'.ret = "InitError"
                /\ embedder' = embedder
       /\ embedder' \notin hist'.failedInits
       /\ hist'.instances \cap hist'.failedInits = {}
       /\ \A p \in Procs :
             (proc'[p].pc = "init" /\ proc[p].pc # "init")
             => /\ embedder = 0
                /\ proc'[p].instance > initStarted
                /\ proc'[p].instance \notin hist.failedInits
       /\ \A p \in Procs :
             (proc'[p].pc = "embed" /\ proc[p].pc \notin {"init", "embed"})
             => embedder # 0 /\ proc'[p].instance = embedder
      ]_vars

\* After an initialization failed, a later call has initialized the embedder
\* anew and returned successfully.
C23_Witness ==
    /\ response.ret = "ok"
    /\ response.op \in {"memoryStore", "semanticSearch", "semanticSearchGlobal"}
    /\ embedder # 0
    /\ hist.failedInits # {}
    /\ \A f \in hist.failedInits : embedder > f

\* C24: when a memoryUpdate call has ended with an error, the record it
\* addressed has the text, updated_at and vector it had before the call's
\* first write.
C24_UpdateAllOrNothing ==
    ( /\ response.op = "memoryUpdate"
      /\ response.ret \notin {"ok", "none"}
      /\ response.before # {} )
    => \A q \in collections[TargetCollection(response.collection)].points :
          q.id = response.id
          => \A b \in response.before :
                /\ q.payload.text = b.payload.text
                /\ q.vector = b.vector
                /\ ("updated_at" \in DOMAIN q.payload)
                      <=> ("updated_at" \in DOMAIN b.payload)
                /\ "updated_at" \in DOMAIN q.payload
                      => q.payload.updated_at = b.payload.updated_at

\* Every list semanticSearchGlobal can return for the query and limit of the
\* returned call on the Global Collection as that call has seen it.
PossibleGlobalResults ==
    GlobalOnlyHits(response.globalSeen, response.vector, ResponseLimit)

InList(h, list) == \E i \in 1..Len(list) : list[i] = h

\* C25: every record semanticSearch returns when called without scope or with
\* scope "global" is in a list semanticSearchGlobal can return for the same
\* query, limit and store contents, and in every such list unless as many as
\* `limit` other records score at least as high (a tie at the limit).
C25_ScopedGlobalWithinGlobalOnly ==
    (ReturnedOk("semanticSearch") /\ ~SearchesWorkspace(response.scope)) =>
        \A i \in 1..Len(response.results) :
            LET h == response.results[i]
            IN  /\ \E out \in PossibleGlobalResults : InList(h, out)
                /\ Cardinality({g \in response.globalSeen :
                        /\ g.id # h.id
                        /\ Dot(response.vector, g.vector) >= h.score}) < ResponseLimit
                   => \A out \in PossibleGlobalResults : InList(h, out)

\* A semanticSearch with scope "global" and limit 1 returned the better of two
\* global records that both clear 0.4.
C25_Witness ==
    /\ ReturnedOk("semanticSearch")
    /\ response.scope = Some("global")
    /\ response.limit = Some(1)
    /\ Len(response.results) = 1
    /\ Cardinality(GlobalEligible(GlobalThreshold)) = 2
    /\ \A out \in PossibleGlobalResults : out = response.results

====
